---- MODULE Spec2Model ----
(***************************************************************************)
(* Model of pypsa/stats.py: the post-solving statistics of a network.      *)
(*                                                                         *)
(* The network is the state.  Every function of stats.py that the claims   *)
(* are about is one action: it reads the network, leaves its return value  *)
(* in `ret`, and writes to the network exactly what the Python code        *)
(* writes (calculate_operational_cost clips the panel it reads in place,   *)
(* check_constraints assigns lines.carrier).                               *)
(*                                                                         *)
(* Numbers are exact rationals <<num, den>> (den > 0, lowest terms); NaN   *)
(* is <<0, 0>>.  Floating-point rounding is not modelled.  A pandas Series *)
(* is a function from its index, a DataFrame a function from snapshots to  *)
(* a Series over its columns.                                              *)
(***************************************************************************)
EXTENDS Integers, Sequences, FiniteSets, TLC

VARIABLES n, op, ret

vars == <<n, op, ret>>

\* Number of snapshots of the network.
NSnap == 2

Snaps == 1..NSnap

----------------------------------------------------------------------------
\* Exact arithmetic with NaN, as the float operations pandas applies.

Abs(i) == IF i < 0 THEN -i ELSE i

RECURSIVE GCD(_, _)
GCD(a, b) == IF b = 0 THEN a ELSE GCD(b, a % b)

NaN == <<0, 0>>

IsNaN(x) == x[2] = 0

Norm(a, b) ==
    IF b = 0 THEN NaN
    ELSE LET g == GCD(Abs(a), Abs(b))
             s == IF b < 0 THEN -1 ELSE 1
         IN  <<s * (a \div g), s * (b \div g)>>

R(i) == <<i, 1>>

Q(a, b) == Norm(a, b)

RAdd(x, y) == IF IsNaN(x) \/ IsNaN(y) THEN NaN
              ELSE Norm(x[1] * y[2] + y[1] * x[2], x[2] * y[2])

RNeg(x) == IF IsNaN(x) THEN NaN ELSE <<-x[1], x[2]>>

RSub(x, y) == RAdd(x, RNeg(y))

RMul(x, y) == IF IsNaN(x) \/ IsNaN(y) THEN NaN
              ELSE Norm(x[1] * y[1], x[2] * y[2])

\* 1/x; the model's efficiencies are never zero.
RInv(x) == IF IsNaN(x) THEN NaN ELSE Norm(x[2], x[1])

RECURSIVE RPow(_, _)
RPow(x, k) == IF k = 0 THEN R(1) ELSE RMul(x, RPow(x, k - 1))

\* Comparisons with NaN are False, as in numpy.
RLt(x, y) == ~IsNaN(x) /\ ~IsNaN(y) /\ x[1] * y[2] < y[1] * x[2]

RGt(x, y) == RLt(y, x)

RLe(x, y) == ~IsNaN(x) /\ ~IsNaN(y) /\ x[1] * y[2] <= y[1] * x[2]

\* min() and max() of pandas skip NaN and give NaN on nothing.
SetMin(S) ==
    LET V == {x \in S : ~IsNaN(x)}
    IN  IF V = {} THEN NaN ELSE CHOOSE x \in V : \A y \in V : RLe(x, y)

SetMax(S) ==
    LET V == {x \in S : ~IsNaN(x)}
    IN  IF V = {} THEN NaN ELSE CHOOSE x \in V : \A y \in V : RLe(y, x)

RECURSIVE SumOver(_, _)
\* sum() of pandas: the sum of f over the index set S, NaN skipped.
SumOver(S, f) ==
    IF S = {} THEN R(0)
    ELSE LET i == CHOOSE j \in S : TRUE
             x == f[i]
             v == IF IsNaN(x) THEN R(0) ELSE x
         IN  RAdd(v, SumOver(S \ {i}, f))

----------------------------------------------------------------------------
\* DataFrames: rows are the snapshots, columns the entities.

Cols(df) == DOMAIN df[1]

\* A frame with every row and cell computed once: f @@ <<>> is f, held as
\* a table of values rather than as an expression.
Eager(df) == [t \in Snaps |-> df[t] @@ <<>>] @@ <<>>

EagerSeries(ser) == ser @@ <<>>

\* All cells of a frame (DataFrame.unstack()).
Cells(df) == {df[t][c] : t \in Snaps, c \in Cols(df)}

\* DataFrame.describe() of the unstacked cells; of its rows only min and
\* max are read by check_constraints.
Describe(S) == [min |-> SetMin(S), max |-> SetMax(S)]

\* pd.Series({'min': x}): a statistic with a minimum only; the max row of
\* the concatenated table is NaN for it.
MinOnly(x) == [min |-> x, max |-> NaN]

\* DataFrame.min().min()
FrameMin(df) == SetMin(Cells(df))

\* a.add(b, fill_value=0): aligned on the union of the columns; a cell
\* missing on one side counts as 0.
AddFill(a, b) ==
    Eager([t \in Snaps |->
        [c \in Cols(a) \cup Cols(b) |->
            LET x == IF c \in Cols(a) /\ ~IsNaN(a[t][c]) THEN a[t][c]
                     ELSE IF c \in Cols(b) /\ ~IsNaN(b[t][c]) THEN R(0) ELSE NaN
                y == IF c \in Cols(b) /\ ~IsNaN(b[t][c]) THEN b[t][c]
                     ELSE IF IsNaN(x) THEN NaN ELSE R(0)
            IN  RAdd(x, y)]])

\* a * b, a - b, a + b of two frames: aligned on the union of the columns,
\* NaN where one side has no such column.
Cell(df, t, c) == IF c \in Cols(df) THEN df[t][c] ELSE NaN

FrameMul(a, b) ==
    Eager([t \in Snaps |-> [c \in Cols(a) \cup Cols(b) |->
        RMul(Cell(a, t, c), Cell(b, t, c))]])

FrameSub(a, b) ==
    Eager([t \in Snaps |-> [c \in Cols(a) \cup Cols(b) |->
        RSub(Cell(a, t, c), Cell(b, t, c))]])

FrameAdd(a, b) ==
    Eager([t \in Snaps |-> [c \in Cols(a) \cup Cols(b) |->
        RAdd(Cell(a, t, c), Cell(b, t, c))]])

FrameNeg(a) == Eager([t \in Snaps |-> [c \in Cols(a) |-> RNeg(a[t][c])]])

\* series * frame: the series' index is aligned with the frame's columns.
SerMulFrame(ser, df) ==
    Eager([t \in Snaps |-> [c \in DOMAIN ser \cup Cols(df) |->
        RMul(IF c \in DOMAIN ser THEN ser[c] ELSE NaN, Cell(df, t, c))]])

\* df[cols]
Select(df, cols) == Eager([t \in Snaps |-> [c \in cols |-> df[t][c]]])

\* df.shift(): every row moves down by one, the first row becomes NaN.
Shift(df) ==
    Eager([t \in Snaps |-> [c \in Cols(df) |-> IF t = 1 THEN NaN ELSE df[t - 1][c]]])

\* df.fillna(ser): NaN cells of column c become ser[c].
FillNa(df, ser) ==
    Eager([t \in Snaps |-> [c \in Cols(df) |->
        IF IsNaN(df[t][c]) /\ c \in DOMAIN ser THEN ser[c] ELSE df[t][c]]])

\* a.where(cond, other) of series over the same index.
Where(a, cond, other) ==
    EagerSeries([c \in DOMAIN a |-> IF c \in DOMAIN cond /\ cond[c] THEN a[c]
                    ELSE IF c \in DOMAIN other THEN other[c] ELSE NaN])

\* expand_series(ser, columns): the series repeated as every column.
expand_series(ser, columns) ==
    Eager([i \in DOMAIN ser |-> [c \in columns |-> ser[i]]])

\* The transpose of expand_series(ser, sns): a frame over the snapshots
\* whose column c is constantly ser[c].
expand_series_T(ser) == Eager([t \in Snaps |-> [c \in DOMAIN ser |-> ser[c]]])

----------------------------------------------------------------------------
\* The network: n.<list_name> is the static table of a component (a
\* function from entity ids to records), n.<list_name>_t its time panel (a
\* record of frames).  n.df(c) and n.pnl(c) look them up by component name.

list_name(c) ==
    CASE c = "Generator"   -> "generators"
      [] c = "StorageUnit" -> "storage_units"
      [] c = "Store"       -> "stores"
      [] c = "Line"        -> "lines"
      [] c = "Transformer" -> "transformers"
      [] c = "Link"        -> "links"

panel_name(list) ==
    CASE list = "generators"    -> "generators_t"
      [] list = "storage_units" -> "storage_units_t"
      [] list = "stores"        -> "stores_t"
      [] list = "lines"         -> "lines_t"
      [] list = "transformers"  -> "transformers_t"
      [] list = "links"         -> "links_t"

df(nw, c) == nw[list_name(c)]

pnl(nw, c) == nw[panel_name(list_name(c))]

\* The column `attr` of a static table, as a series over the entities.
Column(table, attr) == EagerSeries([e \in DOMAIN table |-> table[e][attr]])

\* get_switchable_as_dense(n, c, attr): the panel's column where the
\* attribute of the entity is time-varying, its static value otherwise.
get_as_dense(nw, c, attr) ==
    Eager([t \in Snaps |-> [e \in DOMAIN df(nw, c) |->
        IF attr \in DOMAIN pnl(nw, c) /\ e \in Cols(pnl(nw, c)[attr])
        THEN pnl(nw, c)[attr][t][e]
        ELSE df(nw, c)[e][attr]]])

----------------------------------------------------------------------------
\* calculate_operational_cost

marginal_cost_drivers == <<"generators", "storage_units", "stores">>

\* amounts[amounts < 0] = 0
ClipNegative(frame) ==
    Eager([t \in Snaps |-> [c \in Cols(frame) |->
        IF RLt(frame[t][c], R(0)) THEN R(0) ELSE frame[t][c]]])

\* frame.sum().sum()
FrameSum(frame) ==
    SumOver(Cols(frame),
            EagerSeries([c \in Cols(frame) |->
                SumOver(Snaps, [t \in Snaps |-> frame[t][c]])]))

\* amounts is the panel object n.<component>_t['p'] itself, not a copy:
\* the assignment through the boolean mask writes into the network.
amounts(nw, component_name) ==
    ClipNegative(nw[panel_name(component_name)]["p"])

\* The network after the loop body has run for component_name.
ClipPanel(nw, component_name) ==
    [nw EXCEPT ![panel_name(component_name)]["p"] = amounts(nw, component_name)]

\* time_costs = getattr(n, f"{component_name}_t")[amount_field], read after
\* the clipping: the same panel as amounts.
time_costs(nw, component_name) ==
    ClipPanel(nw, component_name)[panel_name(component_name)]["p"]

this_driver_cost(nw, component_name) ==
    LET costs == Column(nw[component_name], "marginal_cost")
        full_costs == SerMulFrame(costs, amounts(nw, component_name))
        time_full_costs ==
            FrameMul(time_costs(nw, component_name), amounts(nw, component_name))
    IN  RAdd(FrameSum(full_costs), FrameSum(time_full_costs))

marginal_cost_per_driver(nw) ==
    EagerSeries(
        [d \in {c \in {marginal_cost_drivers[i] : i \in DOMAIN marginal_cost_drivers} :
                    c \in DOMAIN nw} |->
            this_driver_cost(nw, d)])

\* As status_change, but the first row is the difference to an implicit 0
\* before the first snapshot.
status_change_from_zero(nw) ==
    Eager([t \in Snaps |-> [g \in Cols(nw.generators_t.status) |->
        IF t = 1 THEN R(nw.generators_t.status[1][g])
        ELSE R(nw.generators_t.status[t][g] - nw.generators_t.status[t - 1][g])]])

\* n.generators_t['status'].diff(): the first row is NaN and equals
\* neither 1 nor -1; later rows are status(t) - status(t-1).
status_change(nw) ==
    Eager([t \in Snaps |-> [g \in Cols(nw.generators_t.status) |->
        IF t = 1 THEN NaN
        ELSE R(nw.generators_t.status[t][g] - nw.generators_t.status[t - 1][g])]])

startups(nw) ==
    [g \in Cols(nw.generators_t.status) |->
        Cardinality({t \in Snaps : status_change(nw)[t][g] = R(1)})]

shutdowns(nw) ==
    [g \in Cols(nw.generators_t.status) |->
        Cardinality({t \in Snaps : status_change(nw)[t][g] = R(-1)})]

\* series.filter(items=...).dot(counts)
FilterDot(series, counts) ==
    LET items == DOMAIN series \cap DOMAIN counts
    IN  SumOver(items, [g \in items |-> RMul(series[g], R(counts[g]))])

commitment_cost(nw) ==
    RAdd(FilterDot(Column(nw.generators, "start_up_cost"), startups(nw)),
         FilterDot(Column(nw.generators, "shut_down_cost"), shutdowns(nw)))

\* The network as calculate_operational_cost leaves it.
RECURSIVE ClipAll(_, _)
ClipAll(nw, i) ==
    IF i > Len(marginal_cost_drivers) THEN nw
    ELSE ClipAll(IF marginal_cost_drivers[i] \in DOMAIN nw
                 THEN ClipPanel(nw, marginal_cost_drivers[i]) ELSE nw, i + 1)

calculate_operational_cost(nw) ==
    LET per_driver == marginal_cost_per_driver(nw)
    IN  [total_marginal_cost      |-> SumOver(DOMAIN per_driver, per_driver),
         marginal_cost_per_driver |-> per_driver,
         commitment_cost          |-> commitment_cost(nw)]

----------------------------------------------------------------------------
\* describe_storage_unit_contraints

\* What a describe_* function hands back: None, a table of statistics (one
\* column per check), or the exception it raises.
None == [raises |-> "", none |-> TRUE, columns |-> <<>>]

Table(columns) == [raises |-> "", none |-> FALSE, columns |-> columns @@ <<>>]

Raise(exception) == [raises |-> exception, none |-> FALSE, columns |-> <<>>]

\* eh = expand_series(n.snapshot_weightings, index)
eh(nw, index) ==
    expand_series([t \in Snaps |-> R(nw.snapshot_weightings[t])], index)

\* expand_series(1 - n.df(c).standing_loss, sns).T.pow(eh)
stand_eff(nw, c) ==
    Eager([t \in Snaps |-> [u \in DOMAIN df(nw, c) |->
        RPow(RSub(R(1), df(nw, c)[u].standing_loss), nw.snapshot_weightings[t])]])

dispatch_eff(nw) == expand_series_T(Column(nw.storage_units, "efficiency_dispatch"))

store_eff(nw) == expand_series_T(Column(nw.storage_units, "efficiency_store"))

inflow(nw) ==
    FrameMul(get_as_dense(nw, "StorageUnit", "inflow"),
             eh(nw, DOMAIN nw.storage_units))

spill(nw) ==
    FrameMul(Select(eh(nw, DOMAIN nw.storage_units), Cols(nw.storage_units_t.spill)),
             nw.storage_units_t.spill)

SpillageLimit(nw) ==
    MinOnly(FrameMin(FrameSub(Select(inflow(nw), Cols(spill(nw))), spill(nw))))

store(nw) ==
    FrameMul(FrameMul(store_eff(nw), eh(nw, DOMAIN nw.storage_units)),
             nw.storage_units_t.p_store)

dispatch(nw) ==
    FrameMul(FrameMul([t \in Snaps |-> [u \in Cols(dispatch_eff(nw)) |->
                          RInv(dispatch_eff(nw)[t][u])]],
                      eh(nw, DOMAIN nw.storage_units)),
             nw.storage_units_t.p_dispatch)

\* As soc_start, but wrapping to the first reported state (iloc[0]).
soc_start_first(nw) ==
    Where(nw.storage_units_t.state_of_charge[1],
          Column(nw.storage_units, "cyclic_state_of_charge"),
          Column(nw.storage_units, "state_of_charge_initial"))

\* soc.iloc[-1].where(sus.cyclic_state_of_charge, sus.state_of_charge_initial)
soc_start(nw) ==
    Where(nw.storage_units_t.state_of_charge[NSnap],
          Column(nw.storage_units, "cyclic_state_of_charge"),
          Column(nw.storage_units, "state_of_charge_initial"))

previous_soc(nw) ==
    FrameMul(stand_eff(nw, "StorageUnit"),
             FillNa(Shift(nw.storage_units_t.state_of_charge), soc_start(nw)))

reconstructed(nw) ==
    AddFill(AddFill(AddFill(AddFill(previous_soc(nw), store(nw)),
                            inflow(nw)),
                    FrameNeg(dispatch(nw))),
            FrameNeg(spill(nw)))

\* reconstructed - soc
soc_deviation(nw) == FrameSub(reconstructed(nw), nw.storage_units_t.state_of_charge)

describe_storage_unit_contraints(nw) ==
    IF DOMAIN nw.storage_units = {} THEN None
    ELSE IF "p_store" \in DOMAIN nw.storage_units_t
         THEN Table([k \in {"Spillage Limit", "SOC Balance StorageUnit"} |->
                        IF k = "Spillage Limit" THEN SpillageLimit(nw)
                        ELSE Describe(Cells(soc_deviation(nw)))])
         ELSE Table([k \in {"Spillage Limit"} |-> SpillageLimit(nw)])

----------------------------------------------------------------------------
\* describe_store_contraints

\* pnl.e.iloc[-1].where(stores.e_cyclic, stores.e_initial)
e_start(nw) ==
    Where(nw.stores_t.e[NSnap], Column(nw.stores, "e_cyclic"),
          Column(nw.stores, "e_initial"))

previous_e(nw) ==
    FrameMul(stand_eff(nw, "Store"), FillNa(Shift(nw.stores_t.e), e_start(nw)))

\* previous_e - pnl.p - pnl.e
e_deviation(nw) ==
    FrameSub(FrameSub(previous_e(nw), nw.stores_t.p), nw.stores_t.e)

describe_store_contraints(nw) ==
    IF DOMAIN nw.stores = {} THEN None
    ELSE Table([k \in {"SOC Balance Store"} |-> Describe(Cells(e_deviation(nw)))])

----------------------------------------------------------------------------
\* describe_nodal_balance_constraint

\* The flows of lines and transformers, their columns renamed to the bus
\* at that end, grouped by bus and summed.
network_injection(nw) ==
    LET ends == {<<c, l, io>> : c \in {"Line", "Transformer"},
                                l \in DOMAIN nw.lines \cup DOMAIN nw.transformers,
                                io \in {"0", "1"}}
        valid == {e \in ends : e[2] \in DOMAIN df(nw, e[1])}
        Bus(e) == IF e[3] = "0" THEN df(nw, e[1])[e[2]].bus0
                  ELSE df(nw, e[1])[e[2]].bus1
        Flow(e, t) == IF e[3] = "0" THEN pnl(nw, e[1]).p0[t][e[2]]
                      ELSE pnl(nw, e[1]).p1[t][e[2]]
    IN  Eager([t \in Snaps |-> [b \in {Bus(e) : e \in valid} |->
            LET at == {e \in valid : Bus(e) = b}
            IN  SumOver(at, [e \in at |-> Flow(e, t)])]])

describe_nodal_balance_constraint(nw) ==
    Table([k \in {"Nodal Balance Constr."} |->
              Describe(Cells(FrameSub(nw.buses_t.p, network_injection(nw))))])

----------------------------------------------------------------------------
\* describe_upper_dispatch_constraints, describe_lower_dispatch_constraints

nominal_attrs ==
    [c \in {"Generator", "Line", "Transformer", "Link", "Store", "StorageUnit"} |->
        CASE c \in {"Generator", "Link", "StorageUnit"} -> "p_nom"
          [] c \in {"Line", "Transformer"}              -> "s_nom"
          [] c = "Store"                                -> "e_nom"]

Directional == {"Line", "Transformer", "Link"}

\* attr + '_opt'
opt_attr(attr) ==
    CASE attr = "p_nom" -> "p_nom_opt"
      [] attr = "s_nom" -> "s_nom_opt"
      [] attr = "e_nom" -> "e_nom_opt"

\* attr[0]
first_letter(attr) ==
    CASE attr = "p_nom" -> "p"
      [] attr = "s_nom" -> "s"
      [] attr = "e_nom" -> "e"

\* attr[0] + '_max_pu'
max_pu_attr(attr) ==
    CASE attr = "p_nom" -> "p_max_pu"
      [] attr = "s_nom" -> "s_max_pu"
      [] attr = "e_nom" -> "e_max_pu"

\* attr[0] + '_min_pu'
min_pu_attr(attr) ==
    CASE attr = "p_nom" -> "p_min_pu"
      [] attr = "s_nom" -> "s_min_pu"
      [] attr = "e_nom" -> "e_min_pu"

upper_dispatch_attr(c) ==
    IF c \in Directional THEN "p0" ELSE first_letter(nominal_attrs[c])

\* n.df(c)[attr + '_opt'] * get_as_dense(n, c, attr[0] + '_max_pu')
\*     - n.pnl(c)[dispatch_attr]
upper_headroom(nw, c) ==
    FrameSub(SerMulFrame(Column(df(nw, c), opt_attr(nominal_attrs[c])),
                         get_as_dense(nw, c, max_pu_attr(nominal_attrs[c]))),
             pnl(nw, c)[upper_dispatch_attr(c)])

UpperKey(c) ==
    CASE c = "Generator"   -> "Generator Upper Limit"
      [] c = "Line"        -> "Line Upper Limit"
      [] c = "Transformer" -> "Transformer Upper Limit"
      [] c = "Link"        -> "Link Upper Limit"
      [] c = "Store"       -> "Store Upper Limit"
      [] c = "StorageUnit" -> "StorageUnit Upper Limit"

describe_upper_dispatch_constraints(nw) ==
    Table([k \in {UpperKey(c) : c \in DOMAIN nominal_attrs} |->
              LET c == CHOOSE d \in DOMAIN nominal_attrs : UpperKey(d) = k
              IN  MinOnly(FrameMin(upper_headroom(nw, c)))])

\* As lower_headroom, but with the min_pu formula for every kind.
lower_headroom_min_pu(nw, c) ==
    FrameAdd(SerMulFrame([e \in DOMAIN df(nw, c) |->
                             RNeg(df(nw, c)[e][opt_attr(nominal_attrs[c])])],
                         get_as_dense(nw, c, min_pu_attr(nominal_attrs[c]))),
             pnl(nw, c)[upper_dispatch_attr(c)])

lower_headroom(nw, c) ==
    IF c \in Directional
    THEN FrameAdd(SerMulFrame(Column(df(nw, c), opt_attr(nominal_attrs[c])),
                              get_as_dense(nw, c, max_pu_attr(nominal_attrs[c]))),
                  pnl(nw, c)["p0"])
    ELSE FrameAdd(SerMulFrame([e \in DOMAIN df(nw, c) |->
                                  RNeg(df(nw, c)[e][opt_attr(nominal_attrs[c])])],
                              get_as_dense(nw, c, min_pu_attr(nominal_attrs[c]))),
                  pnl(nw, c)[first_letter(nominal_attrs[c])])

\* The directional kinds are entered under the bare component name.
LowerKey(c) ==
    CASE c = "Generator"   -> "Generator Lower Limit"
      [] c = "Line"        -> "Line"
      [] c = "Transformer" -> "Transformer"
      [] c = "Link"        -> "Link"
      [] c = "Store"       -> "Store Lower Limit"
      [] c = "StorageUnit" -> "StorageUnit Lower Limit"

describe_lower_dispatch_constraints(nw) ==
    Table([k \in {LowerKey(c) : c \in DOMAIN nominal_attrs} |->
              LET c == CHOOSE d \in DOMAIN nominal_attrs : LowerKey(d) = k
              IN  MinOnly(FrameMin(lower_headroom(nw, c)))])

----------------------------------------------------------------------------
\* describe_cycle_constraints

\* The 1e5 of C_weighted.
CycleScale == 100000

\* n.lines.x_pu_eff.where(n.lines.carrier == 'AC', n.lines.r_pu_eff)
weightings(nw) ==
    Where(Column(nw.lines, "x_pu_eff"),
          [l \in DOMAIN nw.lines |-> nw.lines[l].carrier = "AC"],
          Column(nw.lines, "r_pu_eff"))

\* A sub-network has lines lines_i and a cycle matrix C with one row per
\* line and one column per independent cycle.
CEmpty(sub) == sub.lines_i = {} \/ sub.cycles = 0

\* The cells of cycle_flow(sub), for a sub-network with a cycle.
cycle_flow(nw, sub) ==
    {SumOver(sub.lines_i,
             [l \in sub.lines_i |->
                 RMul(RMul(RMul(R(CycleScale), R(sub.C[l][k])), weightings(nw)[l]),
                      nw.lines_t.p0[t][l])])
        : k \in 1..sub.cycles, t \in Snaps}

\* pd.concat of a list raises ValueError when the list is empty or holds
\* nothing but None; otherwise the None entries are dropped.
describe_cycle_constraints(nw) ==
    LET flows == {i \in DOMAIN nw.sub_networks : ~CEmpty(nw.sub_networks[i])}
    IN  IF flows = {} THEN Raise("ValueError")
        ELSE Table([k \in {"Cycle Constr."} |->
                 Describe(UNION {cycle_flow(nw, nw.sub_networks[i]) : i \in flows})])

----------------------------------------------------------------------------
\* constraint_stats, check_constraints

\* pd.concat(..., axis=1) of tables with distinct column names.
RECURSIVE Concat(_)
Concat(tables) ==
    IF tables = <<>> THEN <<>>
    ELSE LET head == Head(tables).columns
             rest == Concat(Tail(tables))
         IN  EagerSeries([k \in DOMAIN head \cup DOMAIN rest |->
                 IF k \in DOMAIN head THEN head[k] ELSE rest[k]])

\* The list is built first: an exception raised by one of the functions is
\* raised by constraint_stats.
constraint_stats(nw) ==
    LET parts == <<describe_cycle_constraints(nw),
                   describe_store_contraints(nw),
                   describe_storage_unit_contraints(nw),
                   describe_nodal_balance_constraint(nw),
                   describe_lower_dispatch_constraints(nw),
                   describe_upper_dispatch_constraints(nw)>>
        failed == {i \in DOMAIN parts : parts[i].raises # ""}
    IN  IF failed # {}
        THEN Raise(parts[CHOOSE i \in failed : \A j \in failed : i <= j].raises)
        ELSE Table(Concat(parts))

\* n.lines['carrier'] = n.lines.bus0.map(n.buses.carrier)
SetLineCarrier(nw) ==
    [nw EXCEPT !.lines =
        [l \in DOMAIN nw.lines |->
            [nw.lines[l] EXCEPT !.carrier = nw.buses[nw.lines[l].bus0].carrier]]]

\* As condition, but with <= and >= for < and >.
condition_inclusive(stats, tol) ==
    LET rows == {k \in DOMAIN stats :
                    RLe(stats[k].min, RNeg(tol)) \/ RLe(tol, stats[k].max)}
    IN  EagerSeries([k \in rows |-> stats[k]])

\* stats.T[['Min', 'Max']].query('Min < -@tol | Max > @tol').T
condition(stats, tol) ==
    LET rows == {k \in DOMAIN stats :
                    RLt(stats[k].min, RNeg(tol)) \/ RGt(stats[k].max, tol)}
    IN  EagerSeries([k \in rows |-> stats[k]])

check_constraints(nw, tol) ==
    LET stats == constraint_stats(SetLineCarrier(nw))
        failing == condition(stats.columns, tol)
    IN  IF stats.raises # "" THEN Raise(stats.raises)
        ELSE IF DOMAIN failing # {}
             THEN [raises |-> "AssertionError", none |-> FALSE, columns |-> failing]
             ELSE None

----------------------------------------------------------------------------
\* Networks.  BaseNetwork is a solved network that satisfies every
\* constraint; the initial states vary it field by field.

\* A panel whose column c holds col[c][t].
Panel(col) == Eager([t \in Snaps |-> [c \in DOMAIN col |-> col[c][t]]])

Const(v) == [t \in Snaps |-> v]

\* v at the first snapshot, w afterwards.
FirstThen(v, w) == [t \in Snaps |-> IF t = 1 THEN v ELSE w]

NoColumns == [t \in Snaps |-> <<>>]

LineRow(b0, b1) ==
    [bus0 |-> b0, bus1 |-> b1, carrier |-> "AC", s_nom_opt |-> R(10),
     s_max_pu |-> R(1), s_min_pu |-> R(-1),
     x_pu_eff |-> Q(1, CycleScale), r_pu_eff |-> Q(2, CycleScale)]

\* Three lines in a triangle: one independent cycle.
\* Two lines in a row: a tree.
\* The triangle and a separate single line: two sub-networks, one a tree.
Topologies == {"cycle", "tree", "mixed"}

TopologyLines(topology) ==
    CASE topology = "cycle" ->
            [l \in {"l1", "l2", "l3"} |->
                CASE l = "l1" -> LineRow("b1", "b2")
                  [] l = "l2" -> LineRow("b2", "b3")
                  [] l = "l3" -> LineRow("b1", "b3")]
      [] topology = "tree" ->
            [l \in {"l1", "l2"} |->
                CASE l = "l1" -> LineRow("b1", "b2")
                  [] l = "l2" -> LineRow("b2", "b3")]
      [] topology = "mixed" ->
            [l \in {"l1", "l2", "l3", "l4"} |->
                CASE l = "l1" -> LineRow("b1", "b2")
                  [] l = "l2" -> LineRow("b2", "b3")
                  [] l = "l3" -> LineRow("b1", "b3")
                  [] l = "l4" -> LineRow("b5", "b6")]

Triangle ==
    [lines_i |-> {"l1", "l2", "l3"}, cycles |-> 1,
     C |-> [l \in {"l1", "l2", "l3"} |-> IF l = "l3" THEN <<-1>> ELSE <<1>>]]

TreeOf(lines_i) ==
    [lines_i |-> lines_i, cycles |-> 0, C |-> [l \in lines_i |-> <<>>]]

TopologySubNetworks(topology) ==
    CASE topology = "cycle" -> <<Triangle>>
      [] topology = "tree"  -> <<TreeOf({"l1", "l2"})>>
      [] topology = "mixed" -> <<TreeOf({"l4"}), Triangle>>

\* Flows that satisfy Kirchhoff's voltage law on the triangle.
BaseFlow(l) == IF l = "l3" THEN R(2) ELSE R(1)

Unbalanced(topology) ==
    LET lines == TopologyLines(topology)
        p0 == Panel([l \in DOMAIN lines |-> Const(BaseFlow(l))])
    IN  [snapshot_weightings |-> Const(1),
         buses |-> [b \in {"b1", "b2", "b3", "b4", "b5", "b6"} |-> [carrier |-> "AC"]],
         buses_t |-> [p |-> NoColumns],
         lines |-> lines,
         lines_t |-> [p0 |-> p0, p1 |-> FrameNeg(p0)],
         sub_networks |-> TopologySubNetworks(topology),
         transformers |->
            [x \in {"t1"} |->
                [bus0 |-> "b3", bus1 |-> "b4", s_nom_opt |-> R(10),
                 s_max_pu |-> R(1), s_min_pu |-> R(-1)]],
         transformers_t |->
            [p0 |-> Panel([x \in {"t1"} |-> Const(R(0))]),
             p1 |-> Panel([x \in {"t1"} |-> Const(R(0))])],
         links |->
            [x \in {"k1"} |->
                [bus0 |-> "b1", bus1 |-> "b4", p_nom_opt |-> R(10),
                 p_max_pu |-> R(1), p_min_pu |-> R(0)]],
         links_t |->
            [p0 |-> Panel([x \in {"k1"} |-> Const(R(0))]),
             p1 |-> Panel([x \in {"k1"} |-> Const(R(0))])],
         generators |->
            [g \in {"g1", "g2"} |->
                [p_nom_opt |-> R(100), p_max_pu |-> R(1), p_min_pu |-> R(0),
                 marginal_cost |-> R(1),
                 start_up_cost |-> IF g = "g1" THEN R(5) ELSE R(11),
                 shut_down_cost |-> IF g = "g1" THEN R(7) ELSE R(13)]],
         generators_t |->
            [p |-> Panel([g \in {"g1", "g2"} |-> Const(R(50))]),
             status |-> NoColumns,
             marginal_cost |-> NoColumns,
             p_max_pu |-> NoColumns,
             p_min_pu |-> NoColumns],
         storage_units |->
            [u \in {"su1"} |->
                [p_nom_opt |-> R(20), p_max_pu |-> R(1), p_min_pu |-> R(-1),
                 marginal_cost |-> R(0), standing_loss |-> R(0),
                 efficiency_store |-> R(1), efficiency_dispatch |-> R(1),
                 cyclic_state_of_charge |-> FALSE,
                 state_of_charge_initial |-> R(10), inflow |-> R(0)]],
         storage_units_t |->
            [p |-> Panel([u \in {"su1"} |-> Const(R(0))]),
             p_store |-> Panel([u \in {"su1"} |-> Const(R(0))]),
             p_dispatch |-> Panel([u \in {"su1"} |-> Const(R(0))]),
             state_of_charge |-> Panel([u \in {"su1"} |-> Const(R(10))]),
             spill |-> NoColumns,
             inflow |-> NoColumns,
             marginal_cost |-> NoColumns,
             p_max_pu |-> NoColumns,
             p_min_pu |-> NoColumns],
         stores |->
            [x \in {"st1"} |->
                [e_nom_opt |-> R(50), e_max_pu |-> R(1), e_min_pu |-> R(0),
                 marginal_cost |-> R(0), standing_loss |-> R(0),
                 e_cyclic |-> FALSE, e_initial |-> R(10)]],
         stores_t |->
            [p |-> Panel([x \in {"st1"} |-> Const(R(0))]),
             e |-> Panel([x \in {"st1"} |-> Const(R(10))]),
             marginal_cost |-> NoColumns,
             e_max_pu |-> NoColumns,
             e_min_pu |-> NoColumns]]

\* The bus injections that balance the flows (0 at a bus without a branch).
Balance(nw) ==
    LET inj == network_injection(nw)
    IN  [nw EXCEPT !.buses_t.p =
            [t \in Snaps |-> [b \in DOMAIN nw.buses |->
                IF b \in Cols(inj) THEN inj[t][b] ELSE R(0)]]]

BaseNetwork(topology) == Balance(Unbalanced(topology))

\* The cell (t, c) of a frame set to v.
SetCell(frame, t, c, v) == [frame EXCEPT ![t][c] = v]

\* The column c of a frame set to the series col over the snapshots (added
\* if the frame has no such column).
SetColumn(frame, c, col) ==
    Eager([t \in Snaps |-> [d \in Cols(frame) \cup {c} |->
        IF d = c THEN col[t] ELSE frame[t][d]]])

\* The tolerances check_constraints is called with: its default and 1.
Tolerances == {Q(1, 1000), R(1)}

----------------------------------------------------------------------------
\* The functions of stats.py as actions.

CalculateOperationalCost ==
    /\ op' = "calculate_operational_cost"
    /\ ret' = calculate_operational_cost(n)
    /\ n' = ClipAll(n, 1)

DescribeStorageUnitContraints ==
    /\ op' = "describe_storage_unit_contraints"
    /\ ret' = describe_storage_unit_contraints(n)
    /\ UNCHANGED n

DescribeStoreContraints ==
    /\ op' = "describe_store_contraints"
    /\ ret' = describe_store_contraints(n)
    /\ UNCHANGED n

DescribeNodalBalanceConstraint ==
    /\ op' = "describe_nodal_balance_constraint"
    /\ ret' = describe_nodal_balance_constraint(n)
    /\ UNCHANGED n

DescribeUpperDispatchConstraints ==
    /\ op' = "describe_upper_dispatch_constraints"
    /\ ret' = describe_upper_dispatch_constraints(n)
    /\ UNCHANGED n

DescribeLowerDispatchConstraints ==
    /\ op' = "describe_lower_dispatch_constraints"
    /\ ret' = describe_lower_dispatch_constraints(n)
    /\ UNCHANGED n

DescribeCycleConstraints ==
    /\ op' = "describe_cycle_constraints"
    /\ ret' = describe_cycle_constraints(n)
    /\ UNCHANGED n

ConstraintStats ==
    /\ op' = "constraint_stats"
    /\ ret' = constraint_stats(n)
    /\ UNCHANGED n

\* The carrier is assigned before anything can raise.
CheckConstraints ==
    \E tol \in Tolerances :
        /\ op' = "check_constraints"
        /\ ret' = [tol |-> tol, result |-> check_constraints(n, tol)]
        /\ n' = SetLineCarrier(n)

Next ==
    \/ CalculateOperationalCost
    \/ DescribeStorageUnitContraints
    \/ DescribeStoreContraints
    \/ DescribeNodalBalanceConstraint
    \/ DescribeUpperDispatchConstraints
    \/ DescribeLowerDispatchConstraints
    \/ DescribeCycleConstraints
    \/ ConstraintStats
    \/ CheckConstraints

Start(nw) ==
    /\ n = nw
    /\ op = "init"
    /\ ret = None

----------------------------------------------------------------------------
\* Initial networks for the tolerance check: every topology, the carrier
\* of lines and buses, and gaps that lie on, inside and beyond each
\* tolerance in the nodal balance, the cycle flows and the generator limit.

Gaps == {RMul(R(k), tol) : k \in {-2, -1, 0, 1, 2}, tol \in Tolerances}

CheckNetwork(topology, line_carrier, bus_carrier, bus_gap, flow, over) ==
    LET base == Unbalanced(topology)
        flowed ==
            IF "l3" \in DOMAIN base.lines
            THEN [base EXCEPT !.lines_t.p0 = SetCell(@, NSnap, "l3", flow),
                              !.lines_t.p1 = SetCell(@, NSnap, "l3", RNeg(flow))]
            ELSE base
        nw == Balance(flowed)
    IN  [nw EXCEPT
            !.lines = [l \in DOMAIN @ |-> [@[l] EXCEPT !.carrier = line_carrier]],
            !.buses = [b \in DOMAIN @ |-> [carrier |-> bus_carrier]],
            !.buses_t.p = SetCell(@, 1, "b1", RAdd(@[1]["b1"], bus_gap)),
            !.generators_t.p = SetCell(@, 1, "g1", RAdd(R(100), over))]

InitCheck ==
    \E topology \in Topologies, line_carrier \in {"AC", "DC"},
       bus_carrier \in {"AC", "DC"}, bus_gap \in Gaps,
       flow \in {R(2), R(3), R(4)},
       over \in {R(-50), R(0), R(1), R(2)} :
        Start(CheckNetwork(topology, line_carrier, bus_carrier, bus_gap, flow, over))

SpecCheck == InitCheck /\ [][Next]_vars

----------------------------------------------------------------------------
\* Initial networks for the cost functions: dispatch with negative entries
\* (charging), scalar and time-varying marginal costs, and commitment
\* status panels over none, one or both generators.

\* 1, 0, 1, 0, ...
Alternating == [t \in Snaps |-> t % 2]

StatusPanels ==
    {NoColumns}
    \cup {Panel([g \in {"g1"} |-> st]) : st \in [Snaps -> {0, 1}]}
    \cup {Panel([g \in {"g1", "g2"} |-> IF g = "g1" THEN st ELSE Alternating])
            : st \in {FirstThen(0, 1), FirstThen(1, 0)}}

CostNetwork(gen_p, su_p, store_p, gen_cost, gen_cost_t, status) ==
    LET nw == BaseNetwork("cycle")
    IN  [nw EXCEPT
            !.generators_t.p = SetColumn(@, "g1", gen_p),
            !.generators_t.marginal_cost = gen_cost_t,
            !.generators_t.status = status,
            !.generators["g1"].marginal_cost = gen_cost,
            !.storage_units["su1"].marginal_cost = R(1),
            !.storage_units_t.p = SetColumn(@, "su1", su_p),
            !.stores_t.p = SetColumn(@, "st1", store_p)]

InitCost ==
    \E gen_p \in {Const(R(50)), FirstThen(R(2), R(0))},
       su_p \in {Const(R(5)), FirstThen(R(-5), R(5)), Const(R(-5))},
       store_p \in {Const(R(0)), FirstThen(R(-2), R(1))},
       gen_cost \in {R(1), R(2)},
       gen_cost_t \in {NoColumns, Panel([g \in {"g1"} |-> Const(R(3))])},
       status \in StatusPanels :
        Start(CostNetwork(gen_p, su_p, store_p, gen_cost, gen_cost_t, status))

SpecCost == InitCost /\ [][Next]_vars

----------------------------------------------------------------------------
\* Initial networks for the storage balances: losses, efficiencies, the
\* cyclic flag, snapshot weights, with and without the p_store/p_dispatch
\* panels, with no, one and two storage units, with and without stores.

\* 0, 3, 0, 0, ...
SecondOnly(v) == [t \in Snaps |-> IF t = 2 THEN v ELSE R(0)]

\* The trajectory of the scenario: 10 + 5 at the first snapshot, then - 3.
Trajectory == FirstThen(R(15), R(12))

Weightings == {Const(1), FirstThen(2, 1)}

Efficiencies == {<<R(1), R(1)>>, <<Q(1, 2), R(1)>>, <<R(1), Q(1, 2)>>}

\* Inflow and spill of su1: none; inflow 2 and spill 1; spill 1 without inflow.
Spills == {"none", "within", "beyond"}

StorageNetwork(topology, loss, eff, cyclic, weights, p_store, soc, spilling) ==
    LET nw == BaseNetwork(topology)
    IN  [nw EXCEPT
            !.snapshot_weightings = weights,
            !.storage_units["su1"].standing_loss = loss,
            !.storage_units["su1"].efficiency_store = eff[1],
            !.storage_units["su1"].efficiency_dispatch = eff[2],
            !.storage_units["su1"].cyclic_state_of_charge = cyclic,
            !.storage_units_t.p_store = SetColumn(@, "su1", p_store),
            !.storage_units_t.p_dispatch = SetColumn(@, "su1", SecondOnly(R(3))),
            !.storage_units_t.state_of_charge = SetColumn(@, "su1", soc),
            !.storage_units_t.inflow =
                IF spilling = "within" THEN SetColumn(@, "su1", Const(R(2))) ELSE @,
            !.storage_units_t.spill =
                IF spilling = "none" THEN @ ELSE SetColumn(@, "su1", Const(R(1)))]

\* The network without the panels p_store and p_dispatch.
WithoutStore(nw) ==
    [nw EXCEPT !.storage_units_t =
        [k \in DOMAIN @ \ {"p_store", "p_dispatch"} |-> @[k]]]

\* A second storage unit, with its own cyclic flag and initial state.
SecondUnit(nw, cyclic) ==
    [nw EXCEPT
        !.storage_units =
            [u \in {"su1", "su2"} |->
                IF u = "su1" THEN @["su1"]
                ELSE [@["su1"] EXCEPT !.cyclic_state_of_charge = cyclic,
                                      !.state_of_charge_initial = R(4),
                                      !.standing_loss = R(0),
                                      !.efficiency_store = R(1),
                                      !.efficiency_dispatch = R(1)]],
        !.storage_units_t.p = SetColumn(@, "su2", Const(R(0))),
        !.storage_units_t.p_store = SetColumn(@, "su2", Const(R(0))),
        !.storage_units_t.p_dispatch = SetColumn(@, "su2", Const(R(0))),
        !.storage_units_t.state_of_charge =
            SetColumn(@, "su2", [t \in Snaps |-> IF t = NSnap THEN R(7) ELSE R(4)])]

\* The network without storage units.
NoUnits(nw) ==
    [nw EXCEPT
        !.storage_units = <<>>,
        !.storage_units_t = [k \in DOMAIN @ |-> NoColumns]]

\* The network without stores.
NoStores(nw) ==
    [nw EXCEPT
        !.stores = <<>>,
        !.stores_t = [k \in DOMAIN @ |-> NoColumns]]

StoreNetwork(loss, cyclic, weights, p, e) ==
    LET nw == BaseNetwork("cycle")
    IN  [nw EXCEPT
            !.snapshot_weightings = weights,
            !.stores["st1"].standing_loss = loss,
            !.stores["st1"].e_cyclic = cyclic,
            !.stores_t.p = SetColumn(@, "st1", p),
            !.stores_t.e = SetColumn(@, "st1", e)]

InitStorageUnits ==
    \E loss \in {R(0), Q(1, 2)}, eff \in Efficiencies, cyclic \in BOOLEAN,
       weights \in Weightings, p_store \in {Const(R(0)), FirstThen(R(5), R(0))},
       soc \in {Const(R(10)), Trajectory}, spilling \in Spills :
        \/ Start(StorageNetwork("cycle", loss, eff, cyclic, weights, p_store, soc,
                                spilling))
        \/ /\ p_store = Const(R(0))
           /\ Start(WithoutStore(StorageNetwork("cycle", loss, eff, cyclic, weights,
                                                p_store, soc, spilling)))
        \/ /\ eff = <<R(1), R(1)>> /\ spilling = "none"
           /\ \E second \in BOOLEAN :
                Start(SecondUnit(StorageNetwork("cycle", loss, eff, cyclic, weights,
                                                p_store, soc, spilling), second))

InitMissing ==
    \E topology \in {"cycle", "tree"}, spilling \in Spills :
        LET nw == StorageNetwork(topology, R(0), <<R(1), R(1)>>, FALSE, Const(1),
                                 Const(R(0)), Const(R(10)), spilling)
        IN  \/ Start(WithoutStore(nw))
            \/ Start(NoUnits(nw))
            \/ Start(NoStores(nw))
            \/ Start(NoStores(NoUnits(nw)))

InitStores ==
    \E loss \in {R(0), Q(1, 2)}, cyclic \in BOOLEAN, weights \in Weightings,
       p \in {Const(R(0)), FirstThen(R(1), R(0)), Const(R(-1))},
       e \in {Const(R(10)), FirstThen(R(9), R(9)), FirstThen(R(8), R(8))} :
        Start(StoreNetwork(loss, cyclic, weights, p, e))

InitStorage == InitStorageUnits \/ InitMissing \/ InitStores

SpecStorage == InitStorage /\ [][Next]_vars

----------------------------------------------------------------------------
\* Initial networks for the dispatch limits: flows in both directions
\* within and beyond the capacity, static and time-varying max_pu, and a
\* min_pu that differs from -max_pu.

\* 1, 1/2, 1/2, ...: the availability of the scenario.
Derated == FirstThen(R(1), Q(1, 2))

\* The generator g1: as in BaseNetwork; the scenario (capacity 100, max_pu
\* [1, 0.5], dispatch [100, 60]); the scenario with dispatch [100, 50].
GeneratorCases == {"base", "exceeds", "touches"}

DispatchNetwork(topology, line_max_pu, line_p0, min_pu, transformer_p0, link_p0, generator) ==
    LET nw == BaseNetwork(topology)
    IN  [nw EXCEPT
            !.lines_t = [k \in DOMAIN @ \cup {"s_max_pu"} |->
                            IF k = "s_max_pu" THEN line_max_pu ELSE @[k]],
            !.lines_t.p0 = SetColumn(@, "l1", line_p0),
            !.lines["l1"].s_min_pu = min_pu,
            !.transformers_t.p0 = SetColumn(@, "t1", transformer_p0),
            !.links_t.p0 = SetColumn(@, "k1", link_p0),
            !.links["k1"].p_min_pu = min_pu,
            !.generators_t.p_max_pu =
                IF generator = "base" THEN @ ELSE SetColumn(@, "g1", Derated),
            !.generators_t.p =
                CASE generator = "base"    -> @
                  [] generator = "exceeds" -> SetColumn(@, "g1", FirstThen(R(100), R(60)))
                  [] generator = "touches" -> SetColumn(@, "g1", FirstThen(R(100), R(50)))]

InitDispatch ==
    \E topology \in {"cycle", "tree"},
       line_max_pu \in {NoColumns}
                       \cup {Panel([l \in {"l1"} |-> pu]) : pu \in [Snaps -> {R(1), Q(1, 2)}]},
       line_p0 \in {Const(R(-12)), Const(R(0)), FirstThen(R(10), R(4))},
       min_pu \in {R(0), R(-1)},
       transformer_p0 \in {Const(R(-11)), Const(R(4))},
       link_p0 \in {Const(R(-3)), Const(R(12))},
       generator \in GeneratorCases :
        Start(DispatchNetwork(topology, line_max_pu, line_p0, min_pu, transformer_p0,
                              link_p0, generator))

SpecDispatch == InitDispatch /\ [][Next]_vars

----------------------------------------------------------------------------
\* Properties.

\* The statistics check_constraints has judged: those of the network with
\* the carrier assigned, which is the network the call leaves behind.
Judged == constraint_stats(n)

Beyond(stat, tol) == RLt(stat.min, RNeg(tol)) \/ RGt(stat.max, tol)

C1_WitnessFails ==
    /\ op = "check_constraints"
    /\ ret.result.raises = "AssertionError"
    /\ \E k \in DOMAIN ret.result.columns :
            RLt(ret.result.columns[k].min, RNeg(ret.tol))

\* The storage-unit recurrence as the specification writes it.
SuWeight(t) == R(n.snapshot_weightings[t])

SuPrev(u, t) ==
    IF t > 1 THEN n.storage_units_t.state_of_charge[t - 1][u]
    ELSE IF n.storage_units[u].cyclic_state_of_charge
         THEN n.storage_units_t.state_of_charge[NSnap][u]
         ELSE n.storage_units[u].state_of_charge_initial

SuInflow(u, t) ==
    IF u \in Cols(n.storage_units_t.inflow) THEN n.storage_units_t.inflow[t][u]
    ELSE n.storage_units[u].inflow

SuSpill(u, t) ==
    IF u \in Cols(n.storage_units_t.spill) THEN n.storage_units_t.spill[t][u]
    ELSE R(0)

SuDeviation(u, t) ==
    RSub(RSub(RSub(RAdd(RAdd(RMul(RPow(RSub(R(1), n.storage_units[u].standing_loss),
                                       n.snapshot_weightings[t]),
                                  SuPrev(u, t)),
                             RMul(RMul(SuWeight(t), n.storage_units[u].efficiency_store),
                                  n.storage_units_t.p_store[t][u])),
                        RMul(SuWeight(t), SuInflow(u, t))),
                   RMul(RMul(SuWeight(t), n.storage_units_t.p_dispatch[t][u]),
                        RInv(n.storage_units[u].efficiency_dispatch))),
              RMul(SuWeight(t), SuSpill(u, t))),
         n.storage_units_t.state_of_charge[t][u])

SuBalanced == "p_store" \in DOMAIN n.storage_units_t /\ DOMAIN n.storage_units # {}

\* C2: for every storage unit and snapshot the deviation that
\* describe_storage_unit_contraints computes is the recurrence above, with
\* the previous state of the first snapshot chosen per unit by its cyclic
\* flag; the reported SOC balance is the minimum and maximum of these
\* deviations, so both are 0 when the reported trajectory satisfies the
\* recurrence.
C2_StorageUnitRecurrence ==
    op = "describe_storage_unit_contraints" /\ SuBalanced =>
        LET stat == ret.columns["SOC Balance StorageUnit"]
            devs == {SuDeviation(u, t) : u \in DOMAIN n.storage_units, t \in Snaps}
            computed == soc_deviation(n)
        IN  /\ \A u \in DOMAIN n.storage_units, t \in Snaps :
                    computed[t][u] = SuDeviation(u, t)
            /\ stat.min = SetMin(devs)
            /\ stat.max = SetMax(devs)
            /\ devs = {R(0)} => stat.min = R(0) /\ stat.max = R(0)

\* The scenario: initial state 10, store 5 at the first snapshot, dispatch 3
\* at the second, reported 15 then 12, weights 1, no losses: deviation 0.
C2_Witness ==
    /\ op = "describe_storage_unit_contraints"
    /\ SuBalanced
    /\ DOMAIN n.storage_units = {"su1"}
    /\ ~n.storage_units["su1"].cyclic_state_of_charge
    /\ n.storage_units["su1"].state_of_charge_initial = R(10)
    /\ n.storage_units_t.p_store[1]["su1"] = R(5)
    /\ n.storage_units_t.p_dispatch[2]["su1"] = R(3)
    /\ n.storage_units_t.state_of_charge[1]["su1"] = R(15)
    /\ n.storage_units_t.state_of_charge[2]["su1"] = R(12)
    /\ ret.columns["SOC Balance StorageUnit"] = [min |-> R(0), max |-> R(0)]

\* Two units with different cyclic flags, each balanced against its own
\* previous state.
C2_WitnessPerUnit ==
    /\ op = "describe_storage_unit_contraints"
    /\ SuBalanced
    /\ DOMAIN n.storage_units = {"su1", "su2"}
    /\ n.storage_units["su1"].cyclic_state_of_charge
            # n.storage_units["su2"].cyclic_state_of_charge

\* The store recurrence as the specification writes it.
StPrev(x, t) ==
    IF t > 1 THEN n.stores_t.e[t - 1][x]
    ELSE IF n.stores[x].e_cyclic THEN n.stores_t.e[NSnap][x]
         ELSE n.stores[x].e_initial

StDeviation(x, t) ==
    RSub(RSub(RMul(RPow(RSub(R(1), n.stores[x].standing_loss),
                        n.snapshot_weightings[t]),
                   StPrev(x, t)),
              RMul(R(n.snapshot_weightings[t]), n.stores_t.p[t][x])),
         n.stores_t.e[t][x])

\* C3: for every store and snapshot the deviation describe_store_contraints
\* computes is stand_eff * previous_e - weight * p - e, so a trajectory that
\* satisfies the weighted recurrence has deviation 0 whatever the weights.
C3_StoreRecurrenceWeighted ==
    op = "describe_store_contraints" /\ ~ret.none =>
        LET stat == ret.columns["SOC Balance Store"]
            devs == {StDeviation(x, t) : x \in DOMAIN n.stores, t \in Snaps}
            computed == e_deviation(n)
        IN  /\ \A x \in DOMAIN n.stores, t \in Snaps :
                    computed[t][x] = StDeviation(x, t)
            /\ stat.min = SetMin(devs)
            /\ stat.max = SetMax(devs)

\* max(0, x)
Positive(x) == IF RLt(x, R(0)) THEN R(0) ELSE x

\* The marginal cost of one kind as the specification writes it: the scalar
\* cost on the clipped dispatch plus the time-varying cost panel on the
\* dispatch.
DriverCost(list) ==
    LET panel == n[panel_name(list)]
        pairs == {<<x, t>> : x \in DOMAIN n[list], t \in Snaps}
        scalar == [q \in pairs |->
                      RMul(n[list][q[1]].marginal_cost, Positive(panel.p[q[2]][q[1]]))]
        varying == [q \in pairs |->
                       IF q[1] \in Cols(panel.marginal_cost)
                       THEN RMul(panel.marginal_cost[q[2]][q[1]],
                                 Positive(panel.p[q[2]][q[1]]))
                       ELSE R(0)]
    IN  RAdd(SumOver(pairs, scalar), SumOver(pairs, varying))

\* C4: calculate_operational_cost returns per kind the scalar marginal cost
\* times the clipped dispatch plus the time-varying marginal cost times the
\* dispatch, and their sum as the total.
C4_OperationalCost ==
    op = "calculate_operational_cost" =>
        /\ \A i \in DOMAIN marginal_cost_drivers :
                ret.marginal_cost_per_driver[marginal_cost_drivers[i]]
                    = DriverCost(marginal_cost_drivers[i])
        /\ ret.total_marginal_cost =
                RAdd(RAdd(DriverCost("generators"), DriverCost("storage_units")),
                     DriverCost("stores"))

\* C5: a call of calculate_operational_cost leaves the network as it was.
C5_CostLeavesNetwork ==
    [][op' = "calculate_operational_cost" => n' = n]_vars

AllTrees == \A i \in DOMAIN n.sub_networks : CEmpty(n.sub_networks[i])

\* C6: on a network all of whose sub-networks are trees
\* describe_cycle_constraints returns an empty result and raises nothing,
\* and check_constraints does not fail because of the cycle check.
C6_TreesGiveEmptyResult ==
    /\ op = "describe_cycle_constraints" /\ AllTrees =>
            ret.raises = "" /\ DOMAIN ret.columns = {}
    /\ op = "check_constraints" /\ AllTrees => ret.result.raises # "ValueError"

\* C7: without the p_store/p_dispatch panels describe_storage_unit_contraints
\* raises nothing and reports the Spillage Limit alone, the minimum of
\* weight * inflow - weight * spill; without storage units or without stores
\* constraint_stats succeeds and has no column of the missing check.
C7_MissingStorageSkipped ==
    /\ op = "describe_storage_unit_contraints" /\ DOMAIN n.storage_units # {}
            /\ "p_store" \notin DOMAIN n.storage_units_t =>
            /\ ret.raises = ""
            /\ DOMAIN ret.columns = {"Spillage Limit"}
            /\ ret.columns["Spillage Limit"].min =
                    SetMin({RSub(RMul(SuWeight(t), SuInflow(u, t)),
                                 RMul(SuWeight(t), SuSpill(u, t)))
                            : u \in Cols(n.storage_units_t.spill), t \in Snaps})
    /\ op = "constraint_stats" /\ DOMAIN n.storage_units = {} =>
            /\ ret.raises = ""
            /\ DOMAIN ret.columns \cap {"Spillage Limit", "SOC Balance StorageUnit"} = {}
    /\ op = "constraint_stats" /\ DOMAIN n.stores = {} =>
            /\ ret.raises = ""
            /\ "SOC Balance Store" \notin DOMAIN ret.columns

NonDirectional == {"Generator", "StorageUnit", "Store"}

\* capacity_opt * max_pu(t) - dispatch(t) of entity x of kind c.
Headroom(c, x, t) ==
    LET attr == nominal_attrs[c]
    IN  RSub(RMul(df(n, c)[x][opt_attr(attr)],
                  get_as_dense(n, c, max_pu_attr(attr))[t][x]),
             pnl(n, c)[first_letter(attr)][t][x])

\* C8: the upper-limit statistic of a non-directional kind is the minimum
\* headroom over its entities and snapshots, and when some headroom is
\* below -tol check_constraints fails with that kind's upper-limit check
\* in the violating subset.
C8_UpperLimitReported ==
    /\ op = "describe_upper_dispatch_constraints" =>
            \A c \in NonDirectional :
                ret.columns[UpperKey(c)].min =
                    SetMin({Headroom(c, x, t) : x \in DOMAIN df(n, c), t \in Snaps})
    /\ op = "check_constraints" =>
            \A c \in NonDirectional :
                (\E x \in DOMAIN df(n, c), t \in Snaps :
                        RLt(Headroom(c, x, t), RNeg(ret.tol)))
                => /\ ret.result.raises = "AssertionError"
                   /\ UpperKey(c) \in DOMAIN ret.result.columns

\* The commitment cost as the specification writes it.
Transitions(g, d) ==
    Cardinality({t \in Snaps \ {1} :
        n.generators_t.status[t][g] - n.generators_t.status[t - 1][g] = d})

CommitmentCost ==
    LET present == Cols(n.generators_t.status) \cap DOMAIN n.generators
    IN  SumOver(present,
                [g \in present |->
                    RAdd(RMul(R(Transitions(g, 1)), n.generators[g].start_up_cost),
                         RMul(R(Transitions(g, -1)), n.generators[g].shut_down_cost))])

\* C9: the commitment cost is, over the generators of the status panel, the
\* number of 0 -> 1 steps after the first snapshot times start_up_cost plus
\* the number of 1 -> 0 steps times shut_down_cost.
C9_CommitmentCost ==
    op = "calculate_operational_cost" => ret.commitment_cost = CommitmentCost

\* Generator g1 is on at the first snapshot and shuts down later, g2 is not
\* in the status panel: only the shutdown is charged.
C9_Witness ==
    /\ op = "calculate_operational_cost"
    /\ Cols(n.generators_t.status) = {"g1"}
    /\ n.generators_t.status[1]["g1"] = 1
    /\ n.generators_t.status[2]["g1"] = 0
    /\ ret.commitment_cost = RMul(R(Transitions("g1", -1)), R(7))
    /\ RLt(R(0), ret.commitment_cost)

\* capacity_opt * max_pu(t) of entity x of a directional kind c.
Limit(c, x, t) ==
    RMul(df(n, c)[x][opt_attr(nominal_attrs[c])],
         get_as_dense(n, c, max_pu_attr(nominal_attrs[c]))[t][x])

\* C10: for Line, Transformer and Link the upper headroom is
\* capacity_opt * max_pu - p0 and the lower headroom capacity_opt * max_pu
\* + p0, they add up to twice capacity_opt * max_pu, and each reported
\* statistic is the minimum of its headroom.
C10_DirectionalHeadroom ==
    /\ \A c \in Directional :
            LET upper == upper_headroom(n, c)
                lower == lower_headroom(n, c)
            IN  \A x \in DOMAIN df(n, c), t \in Snaps :
                    /\ upper[t][x] = RSub(Limit(c, x, t), pnl(n, c).p0[t][x])
                    /\ lower[t][x] = RAdd(Limit(c, x, t), pnl(n, c).p0[t][x])
                    /\ RAdd(upper[t][x], lower[t][x]) = RMul(R(2), Limit(c, x, t))
    /\ op = "describe_upper_dispatch_constraints" =>
            \A c \in Directional :
                ret.columns[UpperKey(c)].min =
                    SetMin({RSub(Limit(c, x, t), pnl(n, c).p0[t][x])
                            : x \in DOMAIN df(n, c), t \in Snaps})
    /\ op = "describe_lower_dispatch_constraints" =>
            \A c \in Directional :
                ret.columns[LowerKey(c)].min =
                    SetMin({RAdd(Limit(c, x, t), pnl(n, c).p0[t][x])
                            : x \in DOMAIN df(n, c), t \in Snaps})

\* A line derated to half its capacity carries a reverse flow beyond it,
\* and its min_pu is not the negative of its max_pu.
C10_Witness ==
    /\ op = "describe_lower_dispatch_constraints"
    /\ "l1" \in Cols(n.lines_t.s_max_pu)
    /\ \E t \in Snaps : n.lines_t.s_max_pu[t]["l1"] = Q(1, 2)
    /\ n.lines["l1"].s_min_pu = R(0)
    /\ n.lines_t.p0[1]["l1"] = R(-12)
    /\ RLt(ret.columns["Line"].min, R(0))


\* The statements about missing storage data and about the upper limits,
\* on the networks that have a sub-network with a cycle.
MissingStorageSkippedWithCycle == ~AllTrees => C7_MissingStorageSkipped

UpperLimitReportedWithCycle == ~AllTrees => C8_UpperLimitReported

====
